---- MODULE Spec2Model ----
(***************************************************************************)
(* Route point ordering subsystem of Pathie: the RoutePoint / Place /      *)
(* Route rows, point ingestion (RoutePointCreateSerializer), soft delete   *)
(* and the nearest-neighbour route optimizer (RouteService).               *)
(***************************************************************************)
EXTENDS Integers, Sequences, FiniteSets, TLC

\* ------------------------------------------------------------------ bounds
MaxPoints == 3        \* RoutePoint rows ever inserted
MaxPlaces == 2        \* Place rows ever inserted
MaxRoutes == 1        \* Route rows ever inserted
MaxScenarioPoints == 4 \* RoutePoint rows ever inserted, three-point scenario
MaxCapPoints == 11    \* RoutePoint rows ever inserted, route at its point limit
MaxTime == 3          \* readings of the clock
MaxLifeRows == 5      \* Route and RoutePoint rows ever inserted, with route deletion
MaxRowPoints == 3     \* RoutePoint rows of the route whose row-level writes are followed
MaxStartPosition == 3 \* highest position before the row-level writes
MaxRatings == 2       \* Rating rows at a time

\* -------------------------------------------------------- program constants
MaxActivePoints == 10 \* serializers.py: current_points_count >= 10

TYPE_MANUAL == "manual"
TYPE_AI_GENERATED == "ai_generated"
SOURCE_MANUAL == "manual"
SOURCE_AI_GENERATED == "ai_generated"

STATUS_TEMPORARY == "temporary"
STATUS_SAVED == "saved"

\* saved_at = NULL, and a field a PATCH request does not carry.
NoTime == 0
Absent == "absent"

\* Python None for the two optional identifiers of a place.
NoOsm == -1
NoWiki == "None"

\* Coordinates used by the model: 1 = Royal Castle (52.2480, 21.0153),
\* 2 = Barbican (52.2509, 21.0089), 3 = Old Town Market Square (52.2497, 21.0122).
Coords == {1, 2, 3}

\* RouteService._calculate_distance: the haversine distance of the three
\* coordinates above, in metres (R = 6371 km), evaluated with the code's formula.
_calculate_distance(c1, c2) ==
    CASE c1 = c2 -> 0
      [] {c1, c2} = {1, 2} -> 542
      [] {c1, c2} = {1, 3} -> 283
      [] {c1, c2} = {2, 3} -> 261

\* ------------------------------------------------------------------- state
VARIABLES
    routes,        \* Route rows: id -> [route_type]
    places,        \* Place rows: id -> [osm_id, wikipedia_id, coord]
    points,        \* RoutePoint rows: id -> [route, place, position, is_removed, source]
    descriptions,  \* ids of the RoutePoints that have a PlaceDescription row
    ratings,       \* Rating rows: [route, place_description], 0 for NULL
    ai_logs,       \* AIGenerationLog rows: [route]
    tx,            \* open transactions of the concurrent requests
    win,           \* history: the committed rows when the current overlap of requests began
    last           \* history: the last completed request, with the rows before it

vars == <<routes, places, points, descriptions, ratings, ai_logs, tx, win, last>>

\* ------------------------------------------------------------------ routes
\* Route.objects.create(user, name, status=STATUS_TEMPORARY, route_type=...):
\* saved_at is left NULL.
NewRoute(route_type) ==
    [route_type |-> route_type, name |-> "route", status |-> STATUS_TEMPORARY,
     saved_at |-> NoTime]

\* What is left of a Route row after DELETE: its id is not given out again.
DeletedRoute ==
    [route_type |-> "deleted", name |-> "", status |-> "", saved_at |-> NoTime]

\* What is left of a RoutePoint row after DELETE.
DeletedPoint ==
    [route |-> 0, place |-> 0, position |-> 0, is_removed |-> TRUE, source |-> "deleted"]

\* The ids get_object_or_404(Route, pk=...) finds.
RouteIds(rts) == {r \in DOMAIN rts : rts[r] # DeletedRoute}

\* The ids get_object_or_404(RoutePoint, pk=...) finds.
PointIds(pts) == {i \in DOMAIN pts : pts[i] # DeletedPoint}

\* The values timezone.now() may return: later than every stored saved_at.
Now(rts) == {t \in 1..MaxTime : \A r \in DOMAIN rts : rts[r].saved_at < t}

\* Variant: saved_at is written by every request whose status is saved.
UpdateRouteSavedAtOnAnySave(route, data, now) ==
    [route_type |-> route.route_type,
     name |-> IF data.name # Absent THEN data.name ELSE route.name,
     status |-> IF data.status # Absent THEN data.status ELSE route.status,
     saved_at |-> IF data.status = STATUS_SAVED THEN now ELSE route.saved_at]

\* Variant: saved_at is written only while it is still NULL.
UpdateRouteSavedAtOnce(route, data, now) ==
    LET status_changing_to_saved ==
            /\ data.status # Absent /\ data.status # route.status
            /\ data.status = STATUS_SAVED /\ route.status # STATUS_SAVED
    IN [route_type |-> route.route_type,
        name |-> IF data.name # Absent THEN data.name ELSE route.name,
        status |-> IF data.status # Absent THEN data.status ELSE route.status,
        saved_at |-> IF status_changing_to_saved /\ route.saved_at = NoTime
                     THEN now ELSE route.saved_at]

\* RouteService.update_route: the Route row after the call, `now` being the
\* value of timezone.now().
update_route(route, data, now) ==
    LET status_changing_to_saved ==
            /\ data.status # Absent /\ data.status # route.status
            /\ data.status = STATUS_SAVED /\ route.status # STATUS_SAVED
    IN [route_type |-> route.route_type,
        name |-> IF data.name # Absent THEN data.name ELSE route.name,
        status |-> IF data.status # Absent THEN data.status ELSE route.status,
        saved_at |-> IF status_changing_to_saved THEN now ELSE route.saved_at]

\* ------------------------------------------------------------ query helpers
\* RoutePoint.objects.filter(route=route, is_removed=False)
ActiveIds(pts, r) ==
    {i \in DOMAIN pts : pts[i].route = r /\ ~pts[i].is_removed}

RemovedIds(pts, r) ==
    {i \in DOMAIN pts : pts[i].route = r /\ pts[i].is_removed}

\* The row that .order_by('position') yields first among the rows S.
FirstByPosition(pts, S) ==
    CHOOSE i \in S : \A j \in S :
        \/ pts[i].position < pts[j].position
        \/ (pts[i].position = pts[j].position /\ i <= j)

RECURSIVE OrderByPosition(_, _)
OrderByPosition(pts, S) ==
    IF S = {} THEN <<>>
    ELSE LET f == FirstByPosition(pts, S)
         IN <<f>> \o OrderByPosition(pts, S \ {f})

\* Variant: the query without its is_removed=False filter.
ActivePointsUnfiltered(pts, r) ==
    OrderByPosition(pts, {i \in DOMAIN pts : pts[i].route = r})

\* list(RoutePoint.objects.filter(route=route, is_removed=False).order_by('position'))
ActivePoints(pts, r) == OrderByPosition(pts, ActiveIds(pts, r))

\* Partial unique index route_points_uniq_position_active on (route, position)
\* of the rows that are not removed.
\* Variant: no index on (route, position).
UniquePositionAny(pts) == TRUE

UniquePositionActive(pts) ==
    \A i, j \in DOMAIN pts :
        (i # j /\ pts[i].route = pts[j].route
              /\ ~pts[i].is_removed /\ ~pts[j].is_removed)
            => pts[i].position # pts[j].position

SeqRange(s) == {s[i] : i \in 1..Len(s)}

\* ------------------------------------------------------------------ reads
\* RouteDetailAPIView.get: the points of GET /api/routes/{id}/, the prefetch
\* RoutePoint.objects.select_related(...).order_by("position") of the route.
RouteDetailPoints(pts, r) ==
    OrderByPosition(pts, {i \in DOMAIN pts : pts[i].route = r})

\* route_list_selector: points_count = Count('points', filter=Q(points__is_removed=False)).
PointsCount(pts, r) == Cardinality(ActiveIds(pts, r))

\* RouteOptimizeAPIView.post: the points of the response, re-read by
\* filter(route=route, is_removed=False).order_by('position').
OptimizeResponsePoints(pts, r) == OrderByPosition(pts, ActiveIds(pts, r))

\* --------------------------------------------------------- the optimizer
\* min(remaining, key=distance to current): the index of the first element of
\* `remaining` at minimal distance from the place of `current`.
\* Variant: of several equally near points the last one in `remaining` is taken.
NearestIndexLastMinimal(pl, pts, current, remaining) ==
    LET d(k) == _calculate_distance(pl[pts[current].place].coord,
                                    pl[pts[remaining[k]].place].coord)
    IN CHOOSE k \in 1..Len(remaining) :
           /\ \A m \in 1..Len(remaining) : d(k) <= d(m)
           /\ \A m \in (k + 1)..Len(remaining) : d(m) > d(k)

\* min(remaining, key=distance from current): the first of the nearest.
NearestIndex(pl, pts, current, remaining) ==
    LET d(k) == _calculate_distance(pl[pts[current].place].coord,
                                    pl[pts[remaining[k]].place].coord)
    IN CHOOSE k \in 1..Len(remaining) :
           /\ \A m \in 1..Len(remaining) : d(k) <= d(m)
           /\ \A m \in 1..(k - 1) : d(m) > d(k)

\* list.remove(x): drops the first element equal to x.
ListRemove(s, x) ==
    LET k == CHOOSE i \in 1..Len(s) : s[i] = x /\ \A j \in 1..(i - 1) : s[j] # x
    IN SubSeq(s, 1, k - 1) \o SubSeq(s, k + 1, Len(s))

RECURSIVE NearestNeighborLoop(_, _, _, _)
NearestNeighborLoop(pl, pts, optimized, remaining) ==
    IF remaining = <<>> THEN optimized
    ELSE LET nearest == remaining[NearestIndex(pl, pts, optimized[Len(optimized)], remaining)]
         IN NearestNeighborLoop(pl, pts, Append(optimized, nearest),
                                ListRemove(remaining, nearest))

\* The number of passes through `while remaining:` for these lists.
RECURSIVE SelectionSteps(_, _, _, _)
SelectionSteps(pl, pts, optimized, remaining) ==
    IF remaining = <<>> THEN 0
    ELSE LET nearest == remaining[NearestIndex(pl, pts, optimized[Len(optimized)], remaining)]
         IN 1 + SelectionSteps(pl, pts, Append(optimized, nearest),
                               ListRemove(remaining, nearest))

\* Variant: the tour starts from the last point instead of the first.
NearestNeighborFromLast(pl, pts, P) ==
    IF Len(P) <= 1 THEN P
    ELSE NearestNeighborLoop(pl, pts, <<P[Len(P)]>>, SubSeq(P, 1, Len(P) - 1))

\* RouteService._nearest_neighbor_tsp
_nearest_neighbor_tsp(pl, pts, P) ==
    IF Len(P) <= 1 THEN P
    ELSE NearestNeighborLoop(pl, pts, <<P[1]>>, Tail(P))

\* RoutePoint.objects.bulk_update(objs, ['position']): every row whose pk is in
\* `order` gets the position carried by its in-memory object, pos[idx].
BulkUpdatePosition(pts, order, pos) ==
    [i \in DOMAIN pts |->
        IF \E k \in 1..Len(order) : order[k] = i
        THEN [pts[i] EXCEPT !.position =
                 pos[CHOOSE k \in 1..Len(order) : order[k] = i]]
        ELSE pts[i]]

\* Step 1 of the position write: point.position = -(idx + 1), idx 0-based.
\* Variant: no placeholder, the first update writes the final positions.
TemporaryPositionsFinal(order) == [k \in 1..Len(order) |-> k - 1]

TemporaryPositions(order) == [k \in 1..Len(order) |-> -k]

\* Variant: final positions counted from 1.
FinalPositionsFromOne(order) == [k \in 1..Len(order) |-> k]

\* Step 2 of the position write: point.position = idx, idx 0-based.
FinalPositions(order) == [k \in 1..Len(order) |-> k - 1]

\* Variant: no atomic block, what was written stays.
NonAtomicOutcome(before, written, raised) == written

\* @transaction.atomic: what is committed when the block ends, given the rows
\* at its start, the rows as written so far and whether it ended by an exception.
AtomicOutcome(before, written, raised) ==
    IF raised THEN before ELSE written

\* Where a persistence failure may hit optimize_route's two bulk updates.
FailPoints == {"none", "phase1", "phase2"}

\* The rows after the body of optimize_route's try block ran on `pts` for the
\* order `order`, and the error it raised ("" for none): a bulk update raises
\* when the storage layer fails (fail) or when the rows it wrote break the
\* unique index.
OptimizeWrites(pts, order, fail) ==
    LET ph1 == BulkUpdatePosition(pts, order, TemporaryPositions(order))
        ph2 == BulkUpdatePosition(ph1, order, FinalPositions(order))
    IN IF fail = "phase1" THEN [rows |-> pts, error |-> "storage_failure"]
       ELSE IF ~UniquePositionActive(ph1) THEN [rows |-> ph1, error |-> "position_conflict"]
       ELSE IF fail = "phase2" THEN [rows |-> ph1, error |-> "storage_failure"]
       ELSE IF ~UniquePositionActive(ph2) THEN [rows |-> ph2, error |-> "position_conflict"]
       ELSE [rows |-> ph2, error |-> ""]

\* Variant: the route type is not checked.
NotManualUnchecked(rts, r) == FALSE

\* "Only manual routes can be optimized": route.route_type != Route.TYPE_MANUAL.
NotManual(rts, r) == rts[r].route_type # TYPE_MANUAL

\* Variant: the minimum is checked against 1.
TooFewPointsBelowOne(P) == Len(P) < 1

\* "Need at least 2 points to optimize": len(points) < 2.
TooFewPoints(P) == Len(P) < 2

\* RouteService.optimize_route as one call: its outcome, the list it returns and
\* the RoutePoint rows it leaves committed.
optimize_route(rts, pl, pts, r, strategy, fail) ==
    IF NotManual(rts, r)
    THEN [outcome |-> "not_manual", ret |-> <<>>, rows |-> pts]
    ELSE LET P == ActivePoints(pts, r)
         IN IF TooFewPoints(P)
            THEN [outcome |-> "too_few_points", ret |-> <<>>, rows |-> pts]
            ELSE LET order == IF strategy \in {"nearest_neighbor", "tsp_approx"}
                                  THEN _nearest_neighbor_tsp(pl, pts, P)
                                  ELSE _nearest_neighbor_tsp(pl, pts, P)
                     w == OptimizeWrites(pts, order, fail)
                 IN [outcome |-> IF w.error # "" THEN w.error ELSE "ok",
                     ret |-> IF w.error # "" THEN <<>> ELSE order,
                     rows |-> AtomicOutcome(pts, w.rows, w.error # "")]

\* RouteOptimizeInputSerializer: strategy is a ChoiceField over STRATEGY_CHOICES.
\* Variant: any string is accepted.
ValidStrategyAny(strategy) == TRUE

ValidStrategy(strategy) == strategy \in {"nearest_neighbor", "tsp_approx"}

\* RouteOptimizeAPIView.post: the input serializer, then the service.
optimize_request(rts, pl, pts, r, strategy, fail) ==
    IF ~ValidStrategy(strategy)
    THEN [outcome |-> "invalid_strategy", ret |-> <<>>, rows |-> pts]
    ELSE optimize_route(rts, pl, pts, r, strategy, fail)

\* ------------------------------------------------------------- ingestion
\* Python truthiness of the two optional identifiers: None, 0 and '' are falsy.
OsmTruthy(osm_id) == osm_id # NoOsm /\ osm_id # 0
WikiTruthy(wikipedia_id) == wikipedia_id # NoWiki /\ wikipedia_id # ""

\* Place.objects.filter(osm_id=...).first() / filter(wikipedia_id=...).first():
\* the id of the matching Place, 0 when there is none.
PlaceByOsm(pl, osm_id) ==
    IF \E i \in DOMAIN pl : pl[i].osm_id = osm_id
    THEN CHOOSE i \in DOMAIN pl : pl[i].osm_id = osm_id
    ELSE 0

PlaceByWiki(pl, wikipedia_id) ==
    IF \E i \in DOMAIN pl : pl[i].wikipedia_id = wikipedia_id
    THEN CHOOSE i \in DOMAIN pl : pl[i].wikipedia_id = wikipedia_id
    ELSE 0

\* The lookup of RoutePointCreateSerializer.create (and of
\* _create_route_points_from_ai): osm_id first, then wikipedia_id; 0 = not found.
LookupPlace(pl, data) ==
    LET byOsm == IF OsmTruthy(data.osm_id) THEN PlaceByOsm(pl, data.osm_id) ELSE 0
    IN IF byOsm = 0 /\ WikiTruthy(data.wikipedia_id)
       THEN PlaceByWiki(pl, data.wikipedia_id)
       ELSE byOsm

\* unique=True on Place.osm_id and Place.wikipedia_id (NULLs never collide):
\* whether Place.objects.create(**data) is accepted by the table.
PlaceInsertAllowed(pl, data) ==
    /\ data.osm_id # NoOsm => \A i \in DOMAIN pl : pl[i].osm_id # data.osm_id
    /\ data.wikipedia_id # NoWiki =>
           \A i \in DOMAIN pl : pl[i].wikipedia_id # data.wikipedia_id

\* Place resolution: [place |-> id of the Place to attach (0 when the insert is
\* refused), rows |-> the Place rows afterwards].
ResolvePlace(pl, data) ==
    LET found == LookupPlace(pl, data)
    IN IF found # 0 THEN [place |-> found, rows |-> pl]
       ELSE IF PlaceInsertAllowed(pl, data)
            THEN [place |-> Len(pl) + 1, rows |-> Append(pl, data)]
            ELSE [place |-> 0, rows |-> pl]

\* Variant: the next position is the lowest one no active point holds.
NextPositionFirstFree(pts, r) ==
    LET used == {pts[i].position : i \in ActiveIds(pts, r)}
    IN CHOOSE n \in 0..Cardinality(used) :
           n \notin used /\ \A m \in 0..(n - 1) : m \in used

\* Variant: the next position is the number of active points.
NextPositionByCount(pts, r) == Cardinality(ActiveIds(pts, r))

\* Variant: the largest position is taken over removed points too.
NextPositionAllRows(pts, r) ==
    LET A == {i \in DOMAIN pts : pts[i].route = r}
    IN IF A = {} THEN 0
       ELSE pts[CHOOSE i \in A : \A j \in A : pts[j].position <= pts[i].position].position + 1

\* "Calculate next position": the largest position of an active point plus one,
\* (None -> -1) + 1 = 0 when the route has no active point.
NextPosition(pts, r) ==
    LET A == ActiveIds(pts, r)
        last_position == IF A = {} THEN -1
                         ELSE pts[CHOOSE i \in A :
                                     \A j \in A : pts[j].position <= pts[i].position].position
    IN last_position + 1

\* Variant: the route type is not validated.
ValidateAddPointAnyType(rts, pts, r) ==
    IF Cardinality(ActiveIds(pts, r)) >= MaxActivePoints THEN "max_points_exceeded"
    ELSE ""

\* Variant: the limit counts the removed points too.
ValidateAddPointCountsRemoved(rts, pts, r) ==
    IF rts[r].route_type # TYPE_MANUAL THEN "route_type_invalid"
    ELSE IF Cardinality({i \in DOMAIN pts : pts[i].route = r}) >= MaxActivePoints
         THEN "max_points_exceeded"
    ELSE ""

\* RoutePointCreateSerializer.validate: "" when the route accepts a point.
ValidateAddPoint(rts, pts, r) ==
    IF rts[r].route_type # TYPE_MANUAL THEN "route_type_invalid"
    ELSE IF Cardinality(ActiveIds(pts, r)) >= MaxActivePoints THEN "max_points_exceeded"
    ELSE ""

\* RouteAddPointAPIView.post: validate, then create inside the view's atomic
\* block; an IntegrityError of either insert leaves nothing committed.
add_point(rts, pl, pts, r, data) ==
    LET code == ValidateAddPoint(rts, pts, r)
        res == ResolvePlace(pl, data)
        row == [route |-> r, place |-> res.place, position |-> NextPosition(pts, r),
                is_removed |-> FALSE, source |-> SOURCE_MANUAL]
        written == Append(pts, row)
        raised == res.place = 0 \/ ~UniquePositionActive(written)
    IN IF code # ""
       THEN [outcome |-> code, point |-> 0, places |-> pl, rows |-> pts]
       ELSE [outcome |-> IF res.place = 0 THEN "place_conflict"
                         ELSE IF raised THEN "position_conflict" ELSE "created",
             point |-> IF raised THEN 0 ELSE Len(written),
             places |-> AtomicOutcome(pl, res.rows, raised),
             rows |-> AtomicOutcome(pts, written, raised)]

\* Variant: the flag is flipped instead of set.
SoftDeleteToggle(pts, p) == [pts EXCEPT ![p].is_removed = ~@]

\* Variant: the points after the removed one move up to close the gap.
SoftDeleteRenumber(pts, p) ==
    [i \in DOMAIN pts |->
        IF i = p THEN [pts[i] EXCEPT !.is_removed = TRUE]
        ELSE IF pts[i].route = pts[p].route /\ pts[i].position > pts[p].position
             THEN [pts[i] EXCEPT !.position = @ - 1]
             ELSE pts[i]]

\* RouteService.soft_delete_point: route_point.is_removed = True;
\* save(update_fields=['is_removed']).
soft_delete_point(pts, p) == [pts EXCEPT ![p].is_removed = TRUE]

\* ------------------------------------------------------- route creation
\* RouteService._create_route_points_from_ai: one RoutePoint per generated
\* entry, at position = its index in the generated list, with the same Place
\* lookup as ingestion and a PlaceDescription when the entry carries a text.
RECURSIVE CreateRoutePointsFromAI(_, _, _, _, _, _)
CreateRoutePointsFromAI(pl, pts, descs, r, generated, position) ==
    IF position >= Len(generated)
    THEN [raised |-> FALSE, places |-> pl, rows |-> pts, descs |-> descs]
    ELSE LET e == generated[position + 1]
             data == [osm_id |-> e.osm_id, wikipedia_id |-> e.wikipedia_id,
                      coord |-> e.coord]
             res == ResolvePlace(pl, data)
             row == [route |-> r, place |-> res.place, position |-> position,
                     is_removed |-> FALSE, source |-> SOURCE_AI_GENERATED]
             written == Append(pts, row)
         IN IF res.place = 0 \/ ~UniquePositionActive(written)
            THEN [raised |-> TRUE, places |-> pl, rows |-> pts, descs |-> descs]
            ELSE CreateRoutePointsFromAI(
                     res.rows, written,
                     IF e.description THEN descs \cup {Len(written)} ELSE descs,
                     r, generated, position + 1)

\* --------------------------------------------------------------- inputs
\* Place inputs offered to ingestion: a place known by osm_id, the same osm_id
\* with other attributes and a wikipedia_id, and the falsy osm_id 0.
PlaceInputs ==
    { [osm_id |-> 7,     wikipedia_id |-> NoWiki, coord |-> 1],
      [osm_id |-> 7,     wikipedia_id |-> "Q1",   coord |-> 2],
      [osm_id |-> 0,     wikipedia_id |-> NoWiki, coord |-> 3] }

\* Lists the generation provider may return.
AIOutputs ==
    { << [osm_id |-> 7, wikipedia_id |-> NoWiki, coord |-> 1, description |-> TRUE],
         [osm_id |-> NoOsm, wikipedia_id |-> "Q1", coord |-> 3, description |-> FALSE] >>,
      << [osm_id |-> NoOsm, wikipedia_id |-> NoWiki, coord |-> 2, description |-> TRUE],
         [osm_id |-> NoOsm, wikipedia_id |-> NoWiki, coord |-> 2, description |-> TRUE] >> }

\* The place inputs offered while requests overlap.
ConcPlaceInputs == {d \in PlaceInputs : d.coord \in {1, 3}}

Strategies == {"nearest_neighbor", "tsp_approx", "unknown_strategy"}

NoData == [osm_id |-> NoOsm, wikipedia_id |-> NoWiki, coord |-> 0]

Procs == {1, 2}

IdleTx == [pc |-> "idle", op |-> "", route |-> 0, order |-> <<>>,
           writes |-> <<>>, outcome |-> "", overlap |-> FALSE]

NoWin == [base |-> <<>>, n |-> 0, dirty |-> FALSE]

\* An overlap that is no longer one of two optimize requests alone.
MixedWin == [base |-> <<>>, n |-> 3, dirty |-> TRUE]

\* The record kept of a completed request.
Done(op, r, p, outcome, ret, arg, fail) ==
    [op |-> op, route |-> r, point |-> p, outcome |-> outcome, ret |-> ret,
     arg |-> arg, fail |-> fail, pre_points |-> points, pre_places |-> places,
     pre_descs |-> descriptions, pre_ratings |-> ratings, pre_logs |-> ai_logs]

\* ----------------------------------------------------------------- Init
Init ==
    /\ routes = <<>>
    /\ places = <<>>
    /\ points = <<>>
    /\ descriptions = {}
    /\ tx = [p \in Procs |-> IdleTx]
    /\ ratings = {}
    /\ ai_logs = {}
    /\ win = NoWin
    /\ last = [op |-> "init", route |-> 0, point |-> 0, outcome |-> "", ret |-> <<>>,
               arg |-> NoData, fail |-> "none", pre_points |-> <<>>,
               pre_places |-> <<>>, pre_descs |-> {}]

\* -------------------------------------------------- requests, one at a time
\* RouteService._create_manual_route
CreateManualRouteUpTo(bound) ==
    /\ Len(routes) < bound
    /\ routes' = Append(routes, NewRoute(TYPE_MANUAL))
    /\ last' = Done("create_route", Len(routes) + 1, 0, "created", <<>>, NoData, "none")
    /\ UNCHANGED <<places, points, descriptions, ratings, ai_logs, tx, win>>

CreateManualRoute == CreateManualRouteUpTo(MaxRoutes)

\* RouteService._create_ai_route: all of it or, when a step raises, nothing.
CreateAIRouteUpTo(routeBound, pointBound) ==
    \E generated \in AIOutputs :
        LET r == Len(routes) + 1
            res == CreateRoutePointsFromAI(places, points, descriptions, r, generated, 0)
        IN /\ Len(routes) < routeBound
           /\ Len(points) + Len(generated) <= pointBound
           /\ Len(res.places) <= MaxPlaces
           /\ routes' = AtomicOutcome(routes,
                            Append(routes, NewRoute(TYPE_AI_GENERATED)), res.raised)
           /\ places' = AtomicOutcome(places, res.places, res.raised)
           /\ points' = AtomicOutcome(points, res.rows, res.raised)
           /\ descriptions' = AtomicOutcome(descriptions, res.descs, res.raised)
           /\ ai_logs' = AtomicOutcome(ai_logs, ai_logs \cup {[route |-> r]}, res.raised)
           /\ last' = Done("create_route", IF res.raised THEN 0 ELSE r, 0,
                           IF res.raised THEN "generation_failed" ELSE "created",
                           <<>>, NoData, "none")
           /\ UNCHANGED <<ratings, tx, win>>

CreateAIRoute == CreateAIRouteUpTo(MaxRoutes, MaxPoints)

\* POST /api/routes/{id}/points/ with a place input out of `inputs`, while
\* fewer than `bound` RoutePoint rows exist.
AddPointUpTo(bound, inputs) ==
    \E r \in RouteIds(routes), data \in inputs :
        LET res == add_point(routes, places, points, r, data)
        IN /\ Len(points) < bound
           /\ Len(res.places) <= MaxPlaces
           /\ places' = res.places
           /\ points' = res.rows
           /\ last' = Done("add_point", r, res.point, res.outcome, <<>>, data, "none")
           /\ UNCHANGED <<routes, descriptions, ratings, ai_logs, tx, win>>

AddPoint == AddPointUpTo(MaxPoints, PlaceInputs)

\* DELETE /api/routes/{id}/points/{point_id}/
SoftDelete ==
    \E p \in PointIds(points) :
        /\ points' = soft_delete_point(points, p)
        /\ last' = Done("soft_delete", points[p].route, p, "ok", <<>>, NoData, "none")
        /\ UNCHANGED <<routes, places, descriptions, ratings, ai_logs, tx, win>>

\* POST /api/routes/{id}/optimize/
OptimizeWith(strategies, failpoints) ==
    \E r \in RouteIds(routes), strategy \in strategies, fail \in failpoints :
        LET res == optimize_request(routes, places, points, r, strategy, fail)
        IN /\ points' = res.rows
           /\ last' = Done("optimize", r, 0, res.outcome, res.ret,
                           [strategy |-> strategy], fail)
           /\ UNCHANGED <<routes, places, descriptions, ratings, ai_logs, tx, win>>

Optimize == OptimizeWith(Strategies, FailPoints)

Next ==
    \/ CreateManualRoute
    \/ CreateAIRoute
    \/ AddPoint
    \/ SoftDelete
    \/ Optimize

Spec == Init /\ [][Next]_vars

\* ------------------------------------------- a manual route of three points
\* The database after a manual route was created and three places were
\* ingested into it (osm_id 7, osm_id 0, osm_id 7 again): positions 0, 1, 2.
InitThreePoints ==
    /\ routes = <<NewRoute(TYPE_MANUAL)>>
    /\ places = <<[osm_id |-> 7, wikipedia_id |-> NoWiki, coord |-> 1],
                  [osm_id |-> 0, wikipedia_id |-> NoWiki, coord |-> 3]>>
    /\ points = [i \in 1..3 |->
                    [route |-> 1, place |-> IF i = 2 THEN 2 ELSE 1, position |-> i - 1,
                     is_removed |-> FALSE, source |-> SOURCE_MANUAL]]
    /\ descriptions = {}
    /\ tx = [p \in Procs |-> IdleTx]
    /\ ratings = {}
    /\ ai_logs = {}
    /\ win = NoWin
    /\ last = [op |-> "add_point", route |-> 1, point |-> 3, outcome |-> "created",
               ret |-> <<>>, arg |-> [osm_id |-> 7, wikipedia_id |-> NoWiki, coord |-> 1],
               fail |-> "none",
               pre_points |-> SubSeq(points, 1, 2), pre_places |-> places,
               pre_descs |-> {}]

ScenarioAddPoint == AddPointUpTo(MaxScenarioPoints, PlaceInputs)

NextThreePoints ==
    \/ ScenarioAddPoint
    \/ SoftDelete
    \/ Optimize

SpecThreePoints == InitThreePoints /\ [][NextThreePoints]_vars

\* --------------------------------------- a manual route near its point limit
\* The database after a manual route was created and the place of osm_id 7 was
\* ingested into it nine times: nine active points at positions 0..8.
InitCap ==
    /\ routes = <<NewRoute(TYPE_MANUAL)>>
    /\ places = <<[osm_id |-> 7, wikipedia_id |-> NoWiki, coord |-> 1]>>
    /\ points = [i \in 1..(MaxActivePoints - 1) |->
                    [route |-> 1, place |-> 1, position |-> i - 1,
                     is_removed |-> FALSE, source |-> SOURCE_MANUAL]]
    /\ descriptions = {}
    /\ tx = [p \in Procs |-> IdleTx]
    /\ ratings = {}
    /\ ai_logs = {}
    /\ win = NoWin
    /\ last = [op |-> "add_point", route |-> 1, point |-> MaxActivePoints - 1,
               outcome |-> "created", ret |-> <<>>,
               arg |-> [osm_id |-> 7, wikipedia_id |-> NoWiki, coord |-> 1],
               fail |-> "none",
               pre_points |-> SubSeq(points, 1, MaxActivePoints - 2),
               pre_places |-> places, pre_descs |-> {}]

\* The place inputs offered to a route near its limit: a known place and one
\* that is not stored yet.
CapPlaceInputs == {d \in PlaceInputs : d.wikipedia_id = NoWiki}

\* POST /api/routes/{id}/points/; an attempt that inserts nothing is possible
\* whatever the number of rows.
CapAddPoint ==
    \E r \in RouteIds(routes), data \in CapPlaceInputs :
        LET res == add_point(routes, places, points, r, data)
        IN /\ Len(res.rows) <= MaxCapPoints
           /\ Len(res.places) <= MaxPlaces
           /\ places' = res.places
           /\ points' = res.rows
           /\ last' = Done("add_point", r, res.point, res.outcome, <<>>, data, "none")
           /\ UNCHANGED <<routes, descriptions, ratings, ai_logs, tx, win>>

\* DELETE /api/routes/{id}/points/{point_id}/ of the first or of the last
\* active point of a route.
CapSoftDelete ==
    \E r \in RouteIds(routes) :
        LET P == ActivePoints(points, r)
        IN /\ P # <<>>
           /\ \E p \in {P[1], P[Len(P)]} :
                  /\ points' = soft_delete_point(points, p)
                  /\ last' = Done("soft_delete", r, p, "ok", <<>>, NoData, "none")
           /\ UNCHANGED <<routes, places, descriptions, ratings, ai_logs, tx, win>>

NextCap ==
    \/ CapAddPoint
    \/ CapSoftDelete

SpecCap == InitCap /\ [][NextCap]_vars

\* ------------------------------------------------- the lifecycle of a route
\* The bodies a PATCH /api/routes/{id}/ may carry: name and/or status, each optional.
UpdateInputs ==
    [name : {Absent, "renamed"}, status : {Absent, STATUS_TEMPORARY, STATUS_SAVED}]

\* PATCH /api/routes/{id}/
UpdateRoute ==
    \E r \in RouteIds(routes), data \in UpdateInputs, now \in Now(routes) :
        /\ routes' = [routes EXCEPT ![r] = update_route(routes[r], data, now)]
        /\ last' = [op |-> "update_route", route |-> r, point |-> 0, outcome |-> "ok",
                    ret |-> <<>>, arg |-> NoData, fail |-> "none",
                    pre_points |-> points, pre_places |-> places,
                    pre_descs |-> descriptions,
                    data |-> data, pre_routes |-> routes]
        /\ UNCHANGED <<places, points, descriptions, ratings, ai_logs, tx, win>>

NextRoute ==
    \/ CreateManualRoute
    \/ CreateAIRoute
    \/ UpdateRoute

SpecRoute == Init /\ [][NextRoute]_vars

\* ------------------------------------------------ deleting a route, ratings
\* The RoutePoint rows the collector gathers through RoutePoint.route
\* (on_delete=CASCADE): every row of the route, whatever its is_removed.
\* Variant: only the rows the route queries show.
CascadePointsActiveOnly(pts, r) ==
    {i \in DOMAIN pts : pts[i].route = r /\ pts[i].is_removed = FALSE}

CascadePoints(pts, r) == {i \in DOMAIN pts : pts[i].route = r}

\* route.delete() in RouteDetailAPIView.delete: the Route row and, through the
\* CASCADE foreign keys, its RoutePoints, their PlaceDescriptions, the Ratings
\* of the route and of those descriptions, and its AIGenerationLogs.
delete_route(rts, pts, descs, rats, logs, r) ==
    LET gone == CascadePoints(pts, r)
    IN [routes |-> [rts EXCEPT ![r] = DeletedRoute],
        rows |-> [i \in DOMAIN pts |-> IF i \in gone THEN DeletedPoint ELSE pts[i]],
        descs |-> descs \ gone,
        ratings |-> {x \in rats : x.route # r /\ x.place_description \notin gone},
        logs |-> {l \in logs : l.route # r}]

\* DELETE /api/routes/{id}/
DeleteRoute ==
    \E r \in RouteIds(routes) :
        LET res == delete_route(routes, points, descriptions, ratings, ai_logs, r)
        IN /\ routes' = res.routes
           /\ points' = res.rows
           /\ descriptions' = res.descs
           /\ ratings' = res.ratings
           /\ ai_logs' = res.logs
           /\ last' = Done("delete_route", r, 0, "deleted", <<>>, NoData, "none")
           /\ UNCHANGED <<places, tx, win>>

\* POST /api/ratings/ with rating_type "route": update_or_create keeps one
\* Rating per target.
RateRoute ==
    \E r \in RouteIds(routes) :
        /\ Cardinality(ratings) < MaxRatings
        /\ ratings' = ratings \cup {[route |-> r, place_description |-> 0]}
        /\ last' = Done("rate", r, 0, "ok", <<>>, NoData, "none")
        /\ UNCHANGED <<routes, places, points, descriptions, ai_logs, tx, win>>

\* POST /api/ratings/ with rating_type "place_description".
RateDescription ==
    \E d \in descriptions :
        /\ Cardinality(ratings) < MaxRatings
        /\ ratings' = ratings \cup {[route |-> 0, place_description |-> d]}
        /\ last' = Done("rate", points[d].route, d, "ok", <<>>, NoData, "none")
        /\ UNCHANGED <<routes, places, points, descriptions, ai_logs, tx, win>>

\* The requests that insert rows, while fewer than MaxLifeRows Route and
\* RoutePoint rows were ever inserted.
LifeCreateManualRoute == CreateManualRouteUpTo(MaxLifeRows - Len(points))

LifeCreateAIRoute ==
    CreateAIRouteUpTo(MaxLifeRows - Len(points), MaxLifeRows - Len(routes) - 1)

LifeAddPoint == AddPointUpTo(MaxLifeRows - Len(routes), CapPlaceInputs)

LifeOptimize == OptimizeWith({"nearest_neighbor"}, {"none"})

\* Routes with their ratings and generation logs, up to their deletion.
NextDelete ==
    \/ LifeCreateManualRoute
    \/ LifeCreateAIRoute
    \/ LifeAddPoint
    \/ SoftDelete
    \/ RateRoute
    \/ RateDescription
    \/ DeleteRoute

SpecDelete == Init /\ [][NextDelete]_vars

\* Every request that writes RoutePoint rows, up to the deletion of the route.
NextLife ==
    \/ LifeCreateManualRoute
    \/ LifeCreateAIRoute
    \/ LifeAddPoint
    \/ SoftDelete
    \/ LifeOptimize
    \/ DeleteRoute

SpecLife == Init /\ [][NextLife]_vars

\* ============================================ requests running concurrently
\* Each request of a process runs in one database transaction (the views and
\* the service methods are @transaction.atomic) at READ COMMITTED, the
\* isolation the PostgreSQL backend uses by default: a statement reads the
\* committed rows and the transaction's own writes, an UPDATE waits for the
\* row locks of other open transactions, and an index entry of an open
\* transaction makes a conflicting write wait.

InFlight(q) == tx[q].pc \in {"phase1", "phase2", "commit"}

\* The rows as the statements of process q see them.
View(q) ==
    [i \in DOMAIN points |->
        IF i \in DOMAIN tx[q].writes
        THEN [points[i] EXCEPT !.position = tx[q].writes[i]]
        ELSE points[i]]

\* The position writes process q holds (and the rows it has locked) once its
\* statement has turned its view into `after` by updating the rows `ids`.
PendingWrites(q, after, ids) ==
    [i \in DOMAIN tx[q].writes \cup ids |-> after[i].position]

\* Row i is locked by an open transaction other than q.
RowLocked(q, i) == \E o \in Procs \ {q} : i \in DOMAIN tx[o].writes

\* Variant: every statement commits on its own (no enclosing atomic block).
AutoCommit(committed, view) == view

\* What a statement run inside the atomic block adds to the committed rows:
\* nothing before the block ends.
CommittedByStatement(committed, view) == committed

\* The history of the current overlap of requests: the committed rows when it
\* began and the number n of optimize requests in it, kept as long as it holds
\* at most two optimize requests and nothing else. Updated when a request
\* begins, when another request commits meanwhile, and when q returns to idle.
WinBegin(q) ==
    IF \A o \in Procs \ {q} : tx[o].pc = "idle"
    THEN [base |-> points, n |-> 1, dirty |-> FALSE]
    ELSE IF win.n >= 2 \/ win.dirty THEN MixedWin
    ELSE [win EXCEPT !.n = @ + 1]

WinOther == IF \A o \in Procs : tx[o].pc = "idle" THEN win ELSE MixedWin

WinEnd(q) == IF \A o \in Procs \ {q} : tx[o].pc = "idle" THEN NoWin ELSE win

\* optimize_route up to its query: the business checks and the computed order.
\* Idle processes are interchangeable: the lowest-numbered one takes the request.
TxOptimizeRead(q) ==
    \E r \in RouteIds(routes), strategy \in {s \in Strategies : ValidStrategy(s)} :
        LET P == ActivePoints(View(q), r)
            refused == IF NotManual(routes, r) THEN "not_manual"
                       ELSE IF TooFewPoints(P) THEN "too_few_points" ELSE ""
            order == IF strategy \in {"nearest_neighbor", "tsp_approx"}
                     THEN _nearest_neighbor_tsp(places, View(q), P)
                     ELSE _nearest_neighbor_tsp(places, View(q), P)
        IN /\ tx[q].pc = "idle"
           /\ \A o \in Procs : o < q => tx[o].pc # "idle"
           /\ tx' = [tx EXCEPT ![q] =
                        [pc |-> IF refused # "" THEN "done" ELSE "phase1",
                         op |-> "optimize", route |-> r,
                         order |-> IF refused # "" THEN <<>> ELSE order,
                         writes |-> <<>>, outcome |-> refused,
                         overlap |-> \E o \in Procs \ {q} : InFlight(o)]]
           /\ win' = WinBegin(q)
           /\ UNCHANGED <<routes, places, points, descriptions, ratings, ai_logs, last>>

\* One bulk update of optimize_route (pos = the positions it writes), which may
\* fail in the storage layer or on the unique index; a failure ends the atomic
\* block by an exception and the transaction is rolled back.
TxBulkUpdate(q, pos, fail, nextpc) ==
    LET after == BulkUpdatePosition(View(q), tx[q].order, pos)
        error == IF fail THEN "storage_failure"
                 ELSE IF ~UniquePositionActive(after) THEN "position_conflict" ELSE ""
    IN /\ \A k \in 1..Len(tx[q].order) : ~RowLocked(q, tx[q].order[k])
       /\ \A o \in Procs \ {q} : InFlight(o) =>
              UniquePositionActive(
                  [i \in DOMAIN points |->
                      IF i \in DOMAIN tx[o].writes THEN View(o)[i] ELSE after[i]])
       /\ IF error # ""
          THEN /\ tx' = [tx EXCEPT ![q].pc = "done", ![q].outcome = error,
                                   ![q].writes = <<>>, ![q].order = <<>>]
               /\ points' = points
          ELSE /\ tx' = [tx EXCEPT ![q].pc = nextpc,
                                   ![q].writes = PendingWrites(q, after, SeqRange(tx[q].order))]
               /\ points' = CommittedByStatement(points, after)
       /\ UNCHANGED <<routes, places, descriptions, ratings, ai_logs, win, last>>

TxOptimizePhase1(q) ==
    \E fail \in BOOLEAN :
        /\ tx[q].pc = "phase1"
        /\ TxBulkUpdate(q, TemporaryPositions(tx[q].order), fail, "phase2")

TxOptimizePhase2(q) ==
    \E fail \in BOOLEAN :
        /\ tx[q].pc = "phase2"
        /\ TxBulkUpdate(q, FinalPositions(tx[q].order), fail, "commit")

\* The atomic block ends without exception: its writes are committed together.
TxOptimizeCommit(q) ==
    /\ tx[q].pc = "commit"
    /\ points' = View(q)
    /\ tx' = [tx EXCEPT ![q].pc = "done", ![q].outcome = "ok", ![q].writes = <<>>,
                         ![q].order = <<>>]
    /\ UNCHANGED <<routes, places, descriptions, ratings, ai_logs, win, last>>

\* The response is sent; the process is free for its next request.
TxFinish(q) ==
    /\ tx[q].pc = "done"
    /\ tx' = [tx EXCEPT ![q] = IdleTx]
    /\ win' = WinEnd(q)
    /\ UNCHANGED <<routes, places, points, descriptions, ratings, ai_logs, last>>

\* An ingestion request that runs between the steps of the open transactions;
\* its insert waits while it collides with an index entry of one of them.
ConcAddPoint ==
    \E r \in RouteIds(routes), data \in ConcPlaceInputs :
        LET res == add_point(routes, places, points, r, data)
        IN /\ Len(points) < MaxPoints
           /\ Len(ResolvePlace(places, data).rows) <= MaxPlaces
           /\ \A o \in Procs : InFlight(o) =>
                  UniquePositionActive(
                      [i \in DOMAIN res.rows |->
                          IF i \in DOMAIN tx[o].writes THEN View(o)[i] ELSE res.rows[i]])
           /\ places' = res.places
           /\ points' = res.rows
           /\ win' = WinOther
           /\ UNCHANGED <<routes, descriptions, ratings, ai_logs, tx, last>>

\* A soft delete that runs between the steps of the open transactions; its
\* UPDATE waits for the row lock.
ConcSoftDelete ==
    \E i \in PointIds(points) :
        /\ ~RowLocked(0, i)
        /\ ~points[i].is_removed
        /\ points' = soft_delete_point(points, i)
        /\ win' = WinOther
        /\ UNCHANGED <<routes, places, descriptions, ratings, ai_logs, tx, last>>

\* The concurrent requests are those of one manual route: the database after
\* RouteService._create_manual_route has created it.
InitTx ==
    /\ routes = <<NewRoute(TYPE_MANUAL)>>
    /\ places = <<>>
    /\ points = <<>>
    /\ descriptions = {}
    /\ tx = [p \in Procs |-> IdleTx]
    /\ ratings = {}
    /\ ai_logs = {}
    /\ win = NoWin
    /\ last = [op |-> "create_route", route |-> 1, point |-> 0, outcome |-> "created",
               ret |-> <<>>, arg |-> NoData, fail |-> "none", pre_points |-> <<>>,
               pre_places |-> <<>>, pre_descs |-> {}]

NextTx ==
    \/ ConcAddPoint
    \/ ConcSoftDelete
    \/ \E q \in Procs : TxOptimizeRead(q)
    \/ \E q \in Procs : TxOptimizePhase1(q)
    \/ \E q \in Procs : TxOptimizePhase2(q)
    \/ \E q \in Procs : TxOptimizeCommit(q)
    \/ \E q \in Procs : TxFinish(q)

SpecTx == InitTx /\ [][NextTx]_vars

\* ------------------------------- a soft delete racing with optimize calls
\* DELETE /api/routes/{id}/points/{point_id}/ between the steps of the open
\* transactions; its UPDATE waits for the row lock. The record of the request
\* keeps `racing`: the optimize calls that have read the point among the
\* active ones and have not written yet.
RaceSoftDelete ==
    \E i \in PointIds(points) :
        /\ ~RowLocked(0, i)
        /\ ~points[i].is_removed
        /\ points' = soft_delete_point(points, i)
        /\ last' = [op |-> "soft_delete", route |-> points[i].route, point |-> i,
                    outcome |-> "ok", ret |-> <<>>, arg |-> NoData, fail |-> "none",
                    pre_points |-> points,
                    racing |-> {q \in Procs : /\ tx[q].pc = "phase1"
                                              /\ i \in SeqRange(tx[q].order)}]
        /\ win' = WinOther
        /\ UNCHANGED <<routes, places, descriptions, ratings, ai_logs, tx>>

\* Each process serves one optimize call of the three-point route.
NextRace ==
    \/ RaceSoftDelete
    \/ \E q \in Procs : TxOptimizeRead(q)
    \/ \E q \in Procs : TxOptimizePhase1(q)
    \/ \E q \in Procs : TxOptimizePhase2(q)
    \/ \E q \in Procs : TxOptimizeCommit(q)

SpecRace == InitThreePoints /\ [][NextRace]_vars

\* ----------------------------------------------- concurrent ingestions
\* RouteAddPointAPIView.post runs in one transaction; its statements, in
\* order: validate (count of active points) and the Place lookup; the Place
\* insert and the read of the largest active position; the RoutePoint insert;
\* the commit. Reads see committed rows only.
AddTx(q) == tx[q].op = "add_point"

\* The RoutePoint row transaction q inserts.
AddRow(q) ==
    [route |-> tx[q].route,
     place |-> IF tx[q].newplace # <<>> THEN Len(places) + 1 ELSE tx[q].place,
     position |-> tx[q].position, is_removed |-> FALSE, source |-> SOURCE_MANUAL]

TxAddValidate(q) ==
    \E r \in RouteIds(routes), data \in PlaceInputs :
        LET code == ValidateAddPoint(routes, points, r)
        IN /\ tx[q].pc = "idle"
           /\ \A o \in Procs : o < q => tx[o].pc # "idle"
           /\ Len(points) < MaxScenarioPoints
           /\ tx' = [tx EXCEPT ![q] =
                        [pc |-> IF code # "" THEN "done" ELSE "place",
                         op |-> "add_point", route |-> r, order |-> <<>>,
                         writes |-> <<>>, outcome |-> code, overlap |-> FALSE,
                         data |-> data, place |-> LookupPlace(places, data),
                         newplace |-> <<>>, position |-> 0]]
           /\ UNCHANGED <<routes, places, points, descriptions, ratings, ai_logs, win, last>>

\* Place.objects.create when the lookup found nothing (it waits while another
\* open transaction holds an insert with one of its identifiers), then the
\* aggregate Max('position') over the active points.
TxAddPlace(q) ==
    LET create == tx[q].place = 0
        refused == create /\ ~PlaceInsertAllowed(places, tx[q].data)
    IN /\ tx[q].pc = "place"
       /\ AddTx(q)
       /\ create => \A o \in Procs \ {q} :
                        (AddTx(o) /\ tx[o].pc \in {"insert", "add_commit"})
                            => PlaceInsertAllowed(tx[o].newplace, tx[q].data)
       /\ tx' = IF refused
                THEN [tx EXCEPT ![q].pc = "done", ![q].outcome = "place_conflict"]
                ELSE [tx EXCEPT ![q].pc = "insert",
                                ![q].newplace = IF create THEN <<tx[q].data>> ELSE <<>>,
                                ![q].position = NextPosition(points, tx[q].route)]
       /\ UNCHANGED <<routes, places, points, descriptions, ratings, ai_logs, win, last>>

\* RoutePoint.objects.create: the insert waits while another open transaction
\* holds an index entry it collides with, and raises IntegrityError when a
\* committed row does.
TxAddInsert(q) ==
    /\ tx[q].pc = "insert"
    /\ \A o \in Procs \ {q} :
           (AddTx(o) /\ tx[o].pc = "add_commit")
               => UniquePositionActive(<<AddRow(o), AddRow(q)>>)
    /\ tx' = IF UniquePositionActive(Append(points, AddRow(q)))
             THEN [tx EXCEPT ![q].pc = "add_commit"]
             ELSE [tx EXCEPT ![q].pc = "done", ![q].outcome = "position_conflict",
                             ![q].newplace = <<>>]
    /\ UNCHANGED <<routes, places, points, descriptions, ratings, ai_logs, win, last>>

\* The atomic block of the view ends: the inserts are committed together.
TxAddCommit(q) ==
    /\ tx[q].pc = "add_commit"
    /\ places' = places \o tx[q].newplace
    /\ points' = Append(points, AddRow(q))
    /\ tx' = [tx EXCEPT ![q].pc = "done", ![q].outcome = "created"]
    /\ UNCHANGED <<routes, descriptions, ratings, ai_logs, win, last>>

\* Ingestions and soft deletes of the three-point route, overlapping.
NextAdd ==
    \/ ConcSoftDelete
    \/ \E q \in Procs : TxAddValidate(q)
    \/ \E q \in Procs : TxAddPlace(q)
    \/ \E q \in Procs : TxAddInsert(q)
    \/ \E q \in Procs : TxAddCommit(q)
    \/ \E q \in Procs : TxFinish(q)

SpecAdd == InitThreePoints /\ [][NextAdd]_vars

\* ------------------------------------- the two bulk updates, row by row
\* One row of a bulk update of optimize_route: the UPDATE visits the rows of
\* `order` in an order the database chooses (`pending`: the indices not yet
\* visited) and the unique index is checked at each row.
TxRowUpdate(q, pos, nextpc, pending) ==
    \E k \in pending :
        LET i == tx[q].order[k]
            after == [View(q) EXCEPT ![i].position = pos[k]]
        IN /\ IF ~UniquePositionActive(after)
              THEN /\ tx' = [tx EXCEPT ![q].pc = "done",
                                       ![q].outcome = "position_conflict",
                                       ![q].writes = <<>>, ![q].order = <<>>]
                   /\ points' = points
              ELSE /\ tx' = [tx EXCEPT ![q].pc = IF pending = {k} THEN nextpc ELSE @,
                                       ![q].writes = PendingWrites(q, after, {i})]
                   /\ points' = CommittedByStatement(points, after)
           /\ UNCHANGED <<routes, places, descriptions, ratings, ai_logs, win, last>>

TxRowPhase1(q) ==
    /\ tx[q].pc = "phase1"
    /\ TxRowUpdate(q, TemporaryPositions(tx[q].order), "phase2",
                   {k \in 1..Len(tx[q].order) : tx[q].order[k] \notin DOMAIN tx[q].writes})

TxRowPhase2(q) ==
    /\ tx[q].pc = "phase2"
    /\ TxRowUpdate(q, FinalPositions(tx[q].order), "commit",
                   {k \in 1..Len(tx[q].order) : tx[q].writes[tx[q].order[k]] < 0})

\* optimize_route about to write: a manual route of n active points with
\* distinct non-negative positions, and an order of them (any permutation,
\* which covers every order the heuristic computes).
InitRows ==
    \E n \in 2..MaxRowPoints :
        \E start \in [1..n -> 0..MaxStartPosition], order \in [1..n -> 1..n] :
            /\ \A i, j \in 1..n : i # j => start[i] # start[j] /\ order[i] # order[j]
            /\ routes = <<NewRoute(TYPE_MANUAL)>>
            /\ places = <<[osm_id |-> 7, wikipedia_id |-> NoWiki, coord |-> 1]>>
            /\ points = [i \in 1..n |->
                            [route |-> 1, place |-> 1, position |-> start[i],
                             is_removed |-> FALSE, source |-> SOURCE_MANUAL]]
            /\ descriptions = {}
            /\ ratings = {}
            /\ ai_logs = {}
            /\ tx = [p \in Procs |->
                        IF p = 1
                        THEN [pc |-> "phase1", op |-> "optimize", route |-> 1,
                              order |-> order, writes |-> <<>>, outcome |-> "",
                              overlap |-> FALSE]
                        ELSE IdleTx]
            /\ win = [base |-> points, n |-> 1, dirty |-> FALSE]
            /\ last = [op |-> "add_point", route |-> 1, point |-> n, outcome |-> "created",
                       ret |-> <<>>, arg |-> places[1], fail |-> "none"]

NextRows ==
    \/ \E q \in Procs : TxRowPhase1(q)
    \/ \E q \in Procs : TxRowPhase2(q)
    \/ \E q \in Procs : TxOptimizeCommit(q)
    \/ \E q \in Procs : TxFinish(q)

SpecRows == InitRows /\ [][NextRows]_vars

\* ================================================================ claims
\* Vocabulary of the claims, stated on the rows alone.
Act(pts, r) == {i \in DOMAIN pts : pts[i].route = r /\ pts[i].is_removed = FALSE}
Rem(pts) == {i \in DOMAIN pts : pts[i].is_removed = TRUE}
PositionsOf(pts, S) == {pts[i].position : i \in S}
OptimizeRequested == last.op = "optimize"
OptimizeDone == OptimizeRequested /\ ValidStrategy(last.arg.strategy)
OptimizeOk == last.op = "optimize" /\ last.outcome = "ok"

\* C1: in every committed state reached by add_point, soft_delete and optimize
\* calls run one at a time, no two active points of a route share a position;
\* the requests keep this by themselves: none of them is ever refused by the
\* uniqueness index on (route, position).
C1_UniqueActivePositions ==
    /\ \A r \in DOMAIN routes : \A i, j \in Act(points, r) :
           i # j => points[i].position # points[j].position
    /\ last.outcome # "position_conflict"

\* C1 witness: an ingestion succeeded on a route that holds a removed point and
\* at least two active ones.
C1_Witness ==
    /\ last.op = "add_point" /\ last.outcome = "created"
    /\ Cardinality(Act(points, last.route)) >= 2
    /\ \E i \in Rem(points) : points[i].route = last.route

\* C2: after a successful optimize of a route with N active points their
\* positions are exactly 0..N-1, each used once, and the returned list has the
\* point of position i at index i.
C2_PositionsDense ==
    OptimizeOk =>
        LET A == Act(points, last.route)
            N == Cardinality(A)
        IN /\ N = Cardinality(Act(last.pre_points, last.route))
           /\ PositionsOf(points, A) = 0..(N - 1)
           /\ \A i, j \in A : i # j => points[i].position # points[j].position
           /\ Len(last.ret) = N
           /\ \A k \in 1..N : last.ret[k] \in A /\ points[last.ret[k]].position = k - 1

\* C2 witness: a successful optimize of a route whose active positions had a gap.
C2_Witness ==
    /\ OptimizeOk
    /\ LET A == Act(last.pre_points, last.route)
       IN PositionsOf(last.pre_points, A) # 0..(Cardinality(A) - 1)

\* C3: optimize leaves every removed point with its position and flag, changes
\* no Place and no Description, returns no removed point and keeps the set of
\* active points of the route.
C3_RemovedUntouched ==
    OptimizeDone =>
        /\ DOMAIN points = DOMAIN last.pre_points
        /\ \A i \in Rem(last.pre_points) : points[i] = last.pre_points[i]
        /\ \A i \in DOMAIN points : points[i].is_removed = last.pre_points[i].is_removed
        /\ \A k \in 1..Len(last.ret) : ~last.pre_points[last.ret[k]].is_removed
        /\ Act(points, last.route) = Act(last.pre_points, last.route)
        /\ places = last.pre_places
        /\ descriptions = last.pre_descs

\* C3 witness: a successful optimize of a route that holds a removed point.
C3_Witness ==
    /\ OptimizeOk
    /\ \E i \in Rem(last.pre_points) : last.pre_points[i].route = last.route

\* C4: the active point of lowest position before a successful optimize has
\* position 0 after it.
C4_AnchorKept ==
    OptimizeOk =>
        \A a \in Act(last.pre_points, last.route) :
            (\A j \in Act(last.pre_points, last.route) :
                 last.pre_points[a].position <= last.pre_points[j].position)
            => points[a].position = 0

\* C4 witness: a successful optimize that moved some point of the route.
C4_Witness ==
    /\ OptimizeOk
    /\ \E i, j \in Act(points, last.route) :
           /\ last.pre_points[i].position < last.pre_points[j].position
           /\ points[i].position > points[j].position

\* C5: optimize of a route that is not manual is refused as such, whatever the
\* number of its active points, and no row changes.
C5_NonManualRefused ==
    (OptimizeDone /\ routes[last.route].route_type # "manual") =>
        /\ last.outcome = "not_manual"
        /\ points = last.pre_points

\* C5 witness: optimize of a generated route with fewer than two active points.
C5_Witness ==
    /\ OptimizeDone
    /\ routes[last.route].route_type = "ai_generated"
    /\ Cardinality(Act(points, last.route)) < 2

\* C6: optimize of a manual route with fewer than two active points is refused
\* for that reason and no row changes.
C6_TooFewRefused ==
    (/\ OptimizeDone
     /\ routes[last.route].route_type = "manual"
     /\ Cardinality(Act(last.pre_points, last.route)) < 2) =>
        /\ last.outcome = "too_few_points"
        /\ points = last.pre_points

\* C6 witness: optimize of a manual route with one active point and at least
\* one removed point.
C6_Witness ==
    /\ OptimizeDone
    /\ routes[last.route].route_type = "manual"
    /\ Cardinality(Act(last.pre_points, last.route)) = 1
    /\ \E i \in Rem(last.pre_points) : last.pre_points[i].route = last.route

\* C7: when the storage layer fails in either bulk update of optimize, the call
\* fails and every row is as it was before the call.
C7_FailureRollsBack ==
    (OptimizeDone /\ last.fail # "none" /\ last.outcome \notin {"not_manual", "too_few_points"}) =>
        /\ last.outcome = "storage_failure"
        /\ last.ret = <<>>
        /\ points = last.pre_points

\* C7 witness: the final write failed after the placeholder write had been made.
C7_Witness ==
    /\ OptimizeDone /\ last.fail = "phase2" /\ last.outcome = "storage_failure"
    /\ Cardinality(Act(points, last.route)) >= 2

\* C10: a point created by ingestion has position (largest position of the
\* route's active points) + 1, or 0 when there was none, removed points being
\* ignored; its source is manual and its place is the resolved one.
C10_NextPosition ==
    (last.op = "add_point" /\ last.outcome = "created") =>
        LET A == Act(last.pre_points, last.route)
            p == last.point
            d == last.arg
            byOsm == {i \in DOMAIN last.pre_places :
                         d.osm_id \notin {NoOsm, 0} /\ last.pre_places[i].osm_id = d.osm_id}
            byWiki == {i \in DOMAIN last.pre_places :
                          d.wikipedia_id \notin {NoWiki, ""}
                          /\ last.pre_places[i].wikipedia_id = d.wikipedia_id}
        IN /\ p = Len(last.pre_points) + 1 /\ Len(points) = p
           /\ \A i \in DOMAIN last.pre_points : points[i] = last.pre_points[i]
           /\ points[p].route = last.route
           /\ ~points[p].is_removed
           /\ points[p].source = "manual"
           /\ A = {} => points[p].position = 0
           /\ A # {} => /\ \E i \in A : points[p].position = last.pre_points[i].position + 1
                        /\ \A i \in A : points[p].position > last.pre_points[i].position
           /\ IF byOsm # {} THEN points[p].place \in byOsm /\ places = last.pre_places
              ELSE IF byWiki # {} THEN points[p].place \in byWiki /\ places = last.pre_places
              ELSE /\ points[p].place = Len(last.pre_places) + 1
                   /\ places = Append(last.pre_places, d)

\* C10 witness: a point created on a route with an active point and with a
\* removed point whose position is not below the new one.
C10_Witness ==
    /\ last.op = "add_point" /\ last.outcome = "created"
    /\ Act(last.pre_points, last.route) # {}
    /\ \E i \in Rem(points) :
           points[i].route = last.route /\ points[i].position >= points[last.point].position

\* C8: no committed state shows a negative placeholder: every active point of
\* the committed rows has position >= 0 while optimize requests, ingestions and
\* soft deletes interleave.
C8_NoPlaceholderCommitted ==
    \A i \in DOMAIN points : points[i].is_removed = FALSE => points[i].position >= 0

\* C8 witness: an optimize transaction stands between its two writes, holding
\* placeholders that are not committed.
C8_Witness ==
    \E q \in Procs :
        /\ tx[q].pc = "phase2"
        /\ \E i \in DOMAIN tx[q].writes : tx[q].writes[i] < 0 /\ points[i].position >= 0

\* Two optimize requests of one route, r1 and r2, overlapped with nothing else
\* and both have ended.
TwoOptimizeEnded ==
    /\ win.n = 2 /\ ~win.dirty
    /\ \A q \in Procs : tx[q].pc = "done" /\ tx[q].op = "optimize"
    /\ tx[1].route = tx[2].route

\* A call of optimize_route run alone on the rows s and ending with `outcome`:
\* whether it can end that way, and the rows it leaves.
AloneResult(s, r, outcome) ==
    LET ok == optimize_route(routes, places, s, r, "nearest_neighbor", "none")
    IN IF outcome = "storage_failure"
       THEN [can |-> ok.outcome = "ok", rows |-> s]
       ELSE [can |-> ok.outcome = outcome, rows |-> ok.rows]

\* The committed rows are those of two calls run one after the other on s.
IsSerialResult(s, r, first, second) ==
    LET one == AloneResult(s, r, first)
        two == AloneResult(one.rows, r, second)
    IN one.can /\ two.can /\ points = two.rows

\* C9: after two overlapping optimize requests of one route the committed
\* active positions are pairwise distinct and the committed rows are those of
\* the two calls run in some serial order.
C9_SerialEquivalent ==
    TwoOptimizeEnded =>
        /\ \A i, j \in Act(points, tx[1].route) :
               i # j => points[i].position # points[j].position
        /\ \/ IsSerialResult(win.base, tx[1].route, tx[1].outcome, tx[2].outcome)
           \/ IsSerialResult(win.base, tx[1].route, tx[2].outcome, tx[1].outcome)

\* C9 witness: both requests committed, the second having computed its order
\* while the first was still open, and the order of the points changed.
C9_Witness ==
    /\ TwoOptimizeEnded
    /\ tx[1].outcome = "ok" /\ tx[2].outcome = "ok"
    /\ tx[2].overlap
    /\ \E i \in DOMAIN points : points[i].position # win.base[i].position

\* The last request was an ingestion that created a point.
PointCreated == last.op = "add_point" /\ last.outcome = "created"

\* The removed points of route r in the rows pts.
RemOf(pts, r) == {i \in DOMAIN pts : pts[i].route = r /\ pts[i].is_removed = TRUE}

\* C11 as stated: no ingestion gives a new point the position of one of the
\* route's removed points.
C11_RemovedPositionNeverReused ==
    PointCreated =>
        \A i \in RemOf(last.pre_points, last.route) :
            points[last.point].position # last.pre_points[i].position

\* C11 (amended): removed points are ignored by the position computation: the
\* position of a removed point is given to a new point exactly when it is the
\* integer right above the largest active position (0 when no point is active),
\* so a removed point's position at or below the largest active position is
\* never reused.
C11_RemovedPositionReusedOnlyAbove ==
    PointCreated =>
        LET A == Act(last.pre_points, last.route)
        IN \A i \in RemOf(last.pre_points, last.route) :
               (points[last.point].position = last.pre_points[i].position)
               <=> /\ \A a \in A : last.pre_points[i].position > last.pre_points[a].position
                   /\ \/ A = {} /\ last.pre_points[i].position = 0
                      \/ \E a \in A : last.pre_points[i].position = last.pre_points[a].position + 1

\* C11 witness: a point was created at the position of a removed point of a
\* route that has an active point.
C11_Witness ==
    /\ PointCreated
    /\ Act(last.pre_points, last.route) # {}
    /\ \E i \in RemOf(last.pre_points, last.route) :
           points[last.point].position = last.pre_points[i].position

\* Scenario D: the route held exactly three points at positions 0, 1, 2, the
\* middle one removed and the other two active, when a point was ingested.
ScenarioD ==
    /\ PointCreated
    /\ Len(last.pre_points) = 3
    /\ \A i \in 1..3 : /\ last.pre_points[i].route = last.route
                       /\ last.pre_points[i].position = i - 1
                       /\ last.pre_points[i].is_removed = (i = 2)
    /\ routes[last.route].route_type = "manual"

\* C12 as stated: in scenario D the new point gets position 2.
C12_ScenarioDPositionTwo == ScenarioD => points[last.point].position = 2

\* C12 (amended): in scenario D the new point gets position 3, one more than
\* the position 2 of the still-active last point.
C12_ScenarioDPositionThree == ScenarioD => points[last.point].position = 3

\* C12 witness: scenario D happened.
C12_Witness == ScenarioD /\ Len(points) = 4

SoftDeleteDone == last.op = "soft_delete"

\* C13: soft delete of any point, active or already removed, succeeds and
\* leaves the point removed; repeating it changes nothing: deleting an already
\* removed point leaves every row as it was, and one more delete of the same
\* point would leave the current rows as they are.
C13_SoftDeleteIdempotent ==
    SoftDeleteDone =>
        /\ last.outcome = "ok"
        /\ points[last.point].is_removed = TRUE
        /\ last.pre_points[last.point].is_removed = TRUE => points = last.pre_points
        /\ soft_delete_point(points, last.point) = points

\* C13 witness: a soft delete of a point that was already removed.
C13_Witness ==
    /\ SoftDeleteDone
    /\ last.pre_points[last.point].is_removed = TRUE
    /\ last.outcome = "ok"

\* C14: soft delete changes nothing but the is_removed flag of its point: the
\* point keeps position, place, route and source, every other point keeps all
\* its fields, and no Place or Description row changes.
C14_SoftDeleteFrame ==
    SoftDeleteDone =>
        /\ DOMAIN points = DOMAIN last.pre_points
        /\ \A i \in DOMAIN points :
               /\ points[i].position = last.pre_points[i].position
               /\ points[i].place = last.pre_points[i].place
               /\ points[i].route = last.pre_points[i].route
               /\ points[i].source = last.pre_points[i].source
               /\ i # last.point => points[i].is_removed = last.pre_points[i].is_removed
        /\ places = last.pre_places
        /\ descriptions = last.pre_descs

\* C14 witness: an active point that has a description was soft-deleted on a
\* route where another point follows it.
C14_Witness ==
    /\ SoftDeleteDone
    /\ last.pre_points[last.point].is_removed = FALSE
    /\ last.point \in descriptions
    /\ \E j \in DOMAIN points :
           /\ points[j].route = last.route
           /\ points[j].position > points[last.point].position

AddPointAttempted == last.op = "add_point"

C15_AcceptedWithRemoved ==
    /\ PointCreated
    /\ Cardinality(Act(last.pre_points, last.route)) = 9
    /\ RemOf(last.pre_points, last.route) # {}

\* The ids of the points of route r, removed ones included.
PointsOf(pts, r) == {i \in DOMAIN pts : pts[i].route = r}

\* C16: an ingestion into a route that is not manual is refused for its type
\* and writes no RoutePoint and no Place; after the request that created it, a
\* generated route never gets another point.
C16_NonManualIngestionRefused ==
    /\ (AddPointAttempted /\ routes[last.route].route_type # "manual") =>
           /\ last.outcome = "route_type_invalid"
           /\ points = last.pre_points
           /\ places = last.pre_places
    /\ last.op # "create_route" =>
           \A r \in DOMAIN routes :
               routes[r].route_type # "manual" =>
                   PointsOf(points, r) = PointsOf(last.pre_points, r)

\* C16 witness: an ingestion of a place that is not stored was attempted on a
\* generated route that has points.
C16_Witness ==
    /\ AddPointAttempted
    /\ routes[last.route].route_type = "ai_generated"
    /\ PointsOf(points, last.route) # {}
    /\ \A i \in DOMAIN places : places[i].osm_id # last.arg.osm_id

\* An ingestion passed validation (manual route below its point limit).
AddPointValidated ==
    /\ AddPointAttempted
    /\ last.outcome \notin {"route_type_invalid", "max_points_exceeded"}

\* The stored places whose osm_id / wikipedia_id is the one the request supplied.
OsmMatches == {i \in DOMAIN last.pre_places :
                  last.arg.osm_id # NoOsm /\ last.pre_places[i].osm_id = last.arg.osm_id}
WikiMatches == {i \in DOMAIN last.pre_places :
                   last.arg.wikipedia_id # NoWiki
                   /\ last.pre_places[i].wikipedia_id = last.arg.wikipedia_id}

\* C17: an ingestion whose osm_id matches a stored Place creates the point,
\* attaches that Place to it and leaves the Place rows as they were, whatever
\* the other supplied attributes.
C17_OsmMatchReusesPlace ==
    (AddPointValidated /\ OsmMatches # {}) =>
        /\ last.outcome = "created"
        /\ Len(points) = Len(last.pre_points) + 1
        /\ points[Len(points)].place \in OsmMatches
        /\ places = last.pre_places

\* C18: the Place of an ingested point is the stored one matching the supplied
\* osm_id; else the stored one matching the supplied wikipedia_id; else a new
\* Place, the only one created, made of the supplied attributes.
C18_ResolutionPriority ==
    AddPointValidated =>
        /\ last.outcome = "created"
        /\ Len(points) = Len(last.pre_points) + 1
        /\ IF OsmMatches # {}
           THEN points[Len(points)].place \in OsmMatches /\ places = last.pre_places
           ELSE IF WikiMatches # {}
           THEN points[Len(points)].place \in WikiMatches /\ places = last.pre_places
           ELSE /\ places = Append(last.pre_places, last.arg)
                /\ points[Len(points)].place = Len(places)

\* C19: no read of a route's points shows a removed point: the route detail,
\* the points_count of the route list and the optimize response are those of
\* the points with is_removed = false, and so are the count the point limit
\* uses and the positions the next position is computed from.
C19_RemovedExcludedFromReads ==
    \A r \in DOMAIN routes :
        /\ SeqRange(RouteDetailPoints(points, r)) = Act(points, r)
        /\ PointsCount(points, r) = Cardinality(Act(points, r))
        /\ SeqRange(OptimizeResponsePoints(points, r)) = Act(points, r)
        /\ (ValidateAddPoint(routes, points, r) = "max_points_exceeded")
               <=> (routes[r].route_type = "manual" /\ Cardinality(Act(points, r)) >= 10)
        /\ \A i \in Act(points, r) : NextPosition(points, r) > points[i].position

UpdateRouteDone == last.op = "update_route"

\* The last update moved the status of its route from a non-saved value to saved.
MovedToSaved ==
    /\ last.pre_routes[last.route].status # "saved"
    /\ routes[last.route].status = "saved"

\* C20 as stated: saved_at is set once, at the first move of the status to
\* saved, and an update never changes a saved_at that is set.
C20_SavedAtSetOnce ==
    /\ \A r \in DOMAIN routes : routes[r].status = "saved" => routes[r].saved_at # NoTime
    /\ UpdateRouteDone =>
           LET before == last.pre_routes[last.route].saved_at
           IN before # NoTime => routes[last.route].saved_at = before

\* C20 (amended): saved_at is set to the current time by every update that
\* moves the status from a non-saved value to saved, the first one and every
\* later one (saved -> temporary -> saved sets it again); every other update
\* leaves its value as it was.
C20_SavedAtSetOnEachSave ==
    /\ \A r \in DOMAIN routes : routes[r].status = "saved" => routes[r].saved_at # NoTime
    /\ UpdateRouteDone =>
           LET before == last.pre_routes[last.route].saved_at
               after == routes[last.route].saved_at
           IN /\ MovedToSaved => after # NoTime /\ after > before
              /\ ~MovedToSaved => after = before
              /\ \A r \in DOMAIN routes :
                     r # last.route => routes[r] = last.pre_routes[r]

\* C20 witness: a route that had been saved and set back to temporary was saved
\* again.
C20_Witness ==
    /\ UpdateRouteDone
    /\ MovedToSaved
    /\ last.pre_routes[last.route].saved_at # NoTime

RouteDeleted == last.op = "delete_route"

\* The RoutePoint rows, live before the last request, of the route it named.
OwnPoints == {i \in PointIds(last.pre_points) : last.pre_points[i].route = last.route}

\* C22: deleting a route hard-deletes every RoutePoint of the route, active
\* or soft-deleted, their PlaceDescriptions, and the Ratings and generation
\* logs that reference the route; no Place is deleted or changed, and the
\* points of other routes (and everything that hangs on them) stay as they were.
C22_DeleteCascades ==
    RouteDeleted =>
        /\ last.route \notin RouteIds(routes)
        /\ DOMAIN points = DOMAIN last.pre_points
        /\ \A i \in OwnPoints : i \notin PointIds(points)
        /\ \A i \in DOMAIN points \ OwnPoints : points[i] = last.pre_points[i]
        /\ descriptions = last.pre_descs \ OwnPoints
        /\ ratings = {x \in last.pre_ratings :
                         x.route # last.route /\ x.place_description \notin OwnPoints}
        /\ ai_logs = {l \in last.pre_logs : l.route # last.route}
        /\ places = last.pre_places

\* A generated route with an active and a soft-deleted point, a description,
\* a rating and a log is deleted while another route has a point.
C22_Witness ==
    /\ RouteDeleted
    /\ \E i, j \in OwnPoints : /\ last.pre_points[i].is_removed = TRUE
                               /\ last.pre_points[j].is_removed = FALSE
    /\ last.pre_descs \cap OwnPoints # {}
    /\ \E x \in last.pre_ratings : x.route = last.route
    /\ \E l \in last.pre_logs : l.route = last.route
    /\ PointIds(points) # {}
    /\ places # <<>>

\* What the last optimize request would have done with strategy nearest_neighbor.
AsNearestNeighbor ==
    optimize_request(routes, last.pre_places, last.pre_points, last.route,
                     "nearest_neighbor", last.fail)

C24_PointLifecycle ==
    [][\A i \in PointIds(points) :
          IF i \in PointIds(points')
          THEN /\ points'[i].route = points[i].route
               /\ points'[i].position # points[i].position =>
                     /\ last'.op = "optimize"
                     /\ last'.route = points[i].route
               /\ points'[i].is_removed # points[i].is_removed =>
                     /\ last'.op = "soft_delete"
                     /\ last'.point = i
                     /\ points[i].is_removed = FALSE
          ELSE /\ last'.op = "delete_route"
               /\ last'.route = points[i].route]_vars

\* A route is deleted after an optimize reversed two of its points and a
\* soft delete removed a third.
C24_Witness ==
    /\ RouteDeleted
    /\ \E i, j, k \in OwnPoints :
          /\ i < j
          /\ last.pre_points[i].is_removed = FALSE
          /\ last.pre_points[j].is_removed = FALSE
          /\ last.pre_points[i].position > last.pre_points[j].position
          /\ last.pre_points[k].is_removed = TRUE

\* The active points of the optimized route, in position order, before the
\* last request; the distance between the places of two of its points.
PreOrder == ActivePoints(last.pre_points, last.route)
PointDistance(a, b) ==
    _calculate_distance(last.pre_places[last.pre_points[a].place].coord,
                        last.pre_places[last.pre_points[b].place].coord)
IndexIn(seq, x) == CHOOSE k \in 1..Len(seq) : seq[k] = x

\* C25: in the order optimize returns, each point from the second on is, among
\* the points from its index to the end, at minimum distance from the point
\* before it; of several equally near ones it is the first in the position
\* order before the optimize; the order is a permutation of the active points
\* and is reached after n - 1 selections.
C25_NearestNeighborOrder ==
    OptimizeOk =>
        LET n == Len(PreOrder)
        IN /\ Len(last.ret) = n
           /\ SeqRange(last.ret) = SeqRange(PreOrder)
           /\ \A k \in 2..n : \A m \in k..n :
                 PointDistance(last.ret[k - 1], last.ret[k])
                     <= PointDistance(last.ret[k - 1], last.ret[m])
           /\ \A k \in 2..n : \A m \in (k + 1)..n :
                 PointDistance(last.ret[k - 1], last.ret[k])
                     = PointDistance(last.ret[k - 1], last.ret[m])
                 => IndexIn(PreOrder, last.ret[k]) < IndexIn(PreOrder, last.ret[m])
           /\ SelectionSteps(last.pre_places, last.pre_points,
                             <<PreOrder[1]>>, Tail(PreOrder)) = n - 1

\* An optimize of four points changed their order and chose between two
\* equally near points.
C25_Witness ==
    /\ OptimizeOk
    /\ Len(PreOrder) = 4
    /\ last.ret # PreOrder
    /\ \E k \in 2..3 : \E m \in (k + 1)..4 :
          PointDistance(last.ret[k - 1], last.ret[k])
              = PointDistance(last.ret[k - 1], last.ret[m])

\* C26: at every row-level step of the two bulk updates of optimize (each
\* point set to -(index + 1), then each point set to its index), the active
\* points of the route have pairwise distinct positions, so the unique index
\* never refuses a row; for every start of distinct non-negative positions
\* and every order.
C26_NoTransientConflict ==
    \A q \in Procs :
        /\ tx[q].outcome # "position_conflict"
        /\ UniquePositionActive(View(q))

\* The second update has given a point a position that another point, still
\* at its placeholder, held before the optimize.
C26_Witness ==
    /\ tx[1].pc = "phase2"
    /\ \E i, j \in DOMAIN tx[1].writes :
          /\ i # j
          /\ tx[1].writes[i] >= 0
          /\ tx[1].writes[j] < 0
          /\ tx[1].writes[i] = points[j].position

\* C27: a successful optimize that directly follows a successful optimize of
\* the same route leaves the position of every point as it is.
C27_OptimizeIdempotent ==
    [][(/\ OptimizeOk
        /\ last'.op = "optimize"
        /\ last'.outcome = "ok"
        /\ last'.route = last.route) => points' = points]_vars

\* An optimize succeeded on a route that an earlier optimize had reordered
\* and that has two active points at the same place.
C27_Witness ==
    /\ OptimizeOk
    /\ points = last.pre_points
    /\ \E i, j \in Act(points, last.route) :
          i < j /\ points[i].position > points[j].position
    /\ \E i, j \in Act(points, last.route) :
          i # j /\ points[i].place = points[j].place

\* An optimize call that had read the point of the last soft delete before
\* the delete committed, and had not written yet, has committed as well.
RaceCommitted ==
    /\ last.op = "soft_delete"
    /\ "racing" \in DOMAIN last
    /\ \E q \in last.racing : tx[q].pc = "done" /\ tx[q].outcome = "ok"

\* C28: when a soft delete commits after a concurrent optimize of the route
\* has read its active points and before that optimize writes, then, once
\* both have committed, the removed point has the position it had when it
\* was removed and the N active points have the positions 0..N-1.
C28_RaceKeepsPositions ==
    RaceCommitted =>
        /\ points[last.point].position = last.pre_points[last.point].position
        /\ PositionsOf(points, Act(points, last.route))
               = 0..(Cardinality(Act(points, last.route)) - 1)

\* C29: whatever the interleaving of two ingestions into one manual route,
\* the committed rows never hold two active points of the route at the same
\* position.
C29_NoDuplicateCommitted ==
    \A i, j \in PointIds(points) :
        (/\ i # j
         /\ points[i].route = points[j].route
         /\ points[i].is_removed = FALSE
         /\ points[j].is_removed = FALSE) => points[i].position # points[j].position

\* Both ingestions had read the same largest position; one is committed and
\* the insert of the other has been refused.
C29_Witness ==
    \E q \in Procs :
        /\ AddTx(q)
        /\ tx[q].outcome = "position_conflict"
        /\ \E o \in Procs \ {q} : AddTx(o) /\ tx[o].outcome = "created"
        /\ \E i \in Act(points, tx[q].route) :
              i > 3 /\ points[i].position = tx[q].position

\* The Places stored from the input of the last ingestion, each attached to a
\* point ingested before: an earlier ingestion of the same input created them.
StoredFromSameInput ==
    {k \in DOMAIN last.pre_places :
        /\ last.pre_places[k] = last.arg
        /\ \E i \in DOMAIN last.pre_points :
              /\ last.pre_points[i].place = k
              /\ last.pre_points[i].source = SOURCE_MANUAL}

\* C30: an input that supplies an osm_id (0 included) or a wikipedia_id (the
\* empty string included), ingested a second time, succeeds again, creates no
\* second Place, and the new point references the Place of the first.
C30_SameInputTwice ==
    (/\ AddPointValidated
     /\ (last.arg.osm_id # NoOsm \/ last.arg.wikipedia_id # NoWiki)
     /\ StoredFromSameInput # {}) =>
        /\ last.outcome = "created"
        /\ places = last.pre_places
        /\ Len(points) = Len(last.pre_points) + 1
        /\ points[Len(points)].place \in StoredFromSameInput

====
